---------------------------- MODULE Spec2Model ----------------------------
(***************************************************************************)
(* Model of the bookkeeping report generator: the upload route that        *)
(* ingests a spreadsheet for a company (routes.py upload_file and          *)
(* utils.py process_excel_data) and the three report builders of utils.py  *)
(* (get_ledger_data, get_special_report_data, get_trial_balance_data).     *)
(*                                                                         *)
(* Modelling conventions                                                   *)
(*  - a text value is a sequence of one-character strings, so that         *)
(*    str.strip() and str.upper() are computed, not assumed;               *)
(*  - a spreadsheet cell is a record [k, n, s]: k = "nan" (empty cell),    *)
(*    "num" (number n), "str" (text s) or "date" (timestamp n, written     *)
(*    yyyymmdd so that integer order is calendar order);                   *)
(*  - amounts are integers (the code uses floats);                         *)
(*  - a table is the sequence of its rows in ascending primary key: the    *)
(*    keys are autoincremented, so an INSERT appends and ORDER BY id is    *)
(*    the order of the sequence. Company rows are never deleted, so a      *)
(*    Company's id is its position in the company table;                   *)
(*  - db is the committed content of the database, session the content as  *)
(*    seen by the unit of work of the request in flight;                   *)
(*  - created_at/updated_at/uploaded_at, filename, content_type and the    *)
(*    reference column (carried exactly like description) are left out.    *)
(***************************************************************************)
EXTENDS Integers, Sequences, FiniteSets, TLC

VARIABLES
    db,         \* committed tables: company, transaction, company_file
    session,    \* tables as seen by the in-flight request's unit of work
    pc,         \* "idle", or "processing" while upload_file is between
                \* its company step (lines 68-80) and its try block
    company,    \* id of the Company the in-flight upload works on (0: none)
    old,        \* history: db when the in-flight upload began
    seen,       \* history: <<db>> read by a request that ran during the
                \* in-flight upload, <<>> when there was none
    flash,      \* outcome message of the last finished upload
    hist,       \* history: what the last finished upload started from
                \* and what it was given
    response    \* rows returned by the last report request

vars == <<db, session, pc, company, old, seen, flash, hist, response>>

(***************************************************************************)
(* Bounds of the model.                                                    *)
(***************************************************************************)
MaxRows == 2

MaxReportRows == 3

(***************************************************************************)
(* Text.                                                                   *)
(***************************************************************************)
Whitespace == {" "}

lower_letters == <<"a", "b", "c">>

upper_letters == <<"A", "B", "C">>

digits == <<"0", "1", "2", "3", "4", "5", "6", "7", "8", "9">>

IndexIn(seq, x) ==
    IF \E i \in DOMAIN seq : seq[i] = x
    THEN CHOOSE i \in DOMAIN seq : seq[i] = x
    ELSE 0

\* str.upper(), one character
upper_char(ch) ==
    IF IndexIn(lower_letters, ch) # 0
    THEN upper_letters[IndexIn(lower_letters, ch)]
    ELSE ch

\* str.upper()
upper(s) == [i \in DOMAIN s |-> upper_char(s[i])]

RECURSIVE lstrip(_)
lstrip(s) ==
    IF s # <<>> /\ Head(s) \in Whitespace THEN lstrip(Tail(s)) ELSE s

RECURSIVE rstrip(_)
rstrip(s) ==
    IF s # <<>> /\ s[Len(s)] \in Whitespace
    THEN rstrip(SubSeq(s, 1, Len(s) - 1))
    ELSE s

\* str.strip()
strip(s) == rstrip(lstrip(s))

(***************************************************************************)
(* Spreadsheet cells, rows and files.                                      *)
(***************************************************************************)
NaN == [k |-> "nan", n |-> 0, s |-> <<>>]

Num(x) == [k |-> "num", n |-> x, s |-> <<>>]

Str(t) == [k |-> "str", n |-> 0, s |-> t]

Timestamp(d) == [k |-> "date", n |-> d, s |-> <<>>]

\* pandas' NaT, the "no date" a coerced Date cell becomes
NaT == 0

required_columns == <<"Date", "Head of Accounts", "Debit", "Credit">>

Range(seq) == {seq[i] : i \in DOMAIN seq}

Row(date, head, category, description, debit, credit) ==
    [Date |-> date, Head |-> head, Category |-> category,
     Description |-> description, Debit |-> debit, Credit |-> credit]

File(columns, rows) == [columns |-> columns, rows |-> rows]

(***************************************************************************)
(* process_excel_data (utils.py 89-168).                                   *)
(***************************************************************************)
\* mutant of missing_columns: only the Date column is looked for
missing_columns_date_only(file_data) ==
    SelectSeq(<<"Date">>, LAMBDA col : col \notin file_data.columns)

\* utils.py 101: the required columns the sheet lacks, in order
missing_columns(file_data) ==
    SelectSeq(required_columns, LAMBDA col : col \notin file_data.columns)

\* utils.py 120-124: Series.fillna(value)
fillna(cell, value) == IF cell.k = "nan" THEN value ELSE cell

\* utils.py 127: pd.to_datetime(..., errors='coerce'); a cell that holds no
\* timestamp (empty, or text that is no date) becomes NaT
to_datetime(cell) == IF cell.k = "date" THEN cell.n ELSE NaT

\* utils.py 130: df.dropna(subset=['date', 'head_of_account'])
dropna(rows) ==
    SelectSeq(rows, LAMBDA r : to_datetime(r.Date) # NaT /\ r.Head.k # "nan")

\* utils.py 135 and 146: not pd.isna(head) and head != ''
has_head(row) == row.Head.k # "nan" /\ row.Head # Str(<<>>)

\* utils.py 136-137 and 148: str(row['head_of_account']).strip()
head_of(row) == strip(row.Head.s)

\* dict lookup head_of_accounts_map[key]; the map is a set of <<key, head>>
map_has(map, key) == \E p \in map : p[1] = key

map_get(map, key) == (CHOOSE p \in map : p[1] = key)[2]

\* mutant of build_map: a later spelling replaces the recorded one
RECURSIVE build_map_last_wins(_, _, _)
build_map_last_wins(df, i, map) ==
    IF i > Len(df) THEN map
    ELSE IF has_head(df[i])
         THEN build_map_last_wins(df, i + 1,
                 {p \in map : p[1] # upper(head_of(df[i]))}
                 \cup {<<upper(head_of(df[i])), head_of(df[i])>>})
         ELSE build_map_last_wins(df, i + 1, map)

\* utils.py 133-141: the first spelling of each upper-cased head
RECURSIVE build_map(_, _, _)
build_map(df, i, map) ==
    IF i > Len(df) THEN map
    ELSE IF has_head(df[i]) /\ ~map_has(map, upper(head_of(df[i])))
         THEN build_map(df, i + 1,
                        map \cup {<<upper(head_of(df[i])), head_of(df[i])>>})
         ELSE build_map(df, i + 1, map)

head_of_accounts_map(df) == build_map(df, 1, {})

is_numeral(s) == s # <<>> /\ \A i \in DOMAIN s : IndexIn(digits, s[i]) # 0

RECURSIVE parse_int(_)
parse_int(s) ==
    IF s = <<>> THEN 0
    ELSE 10 * parse_int(SubSeq(s, 1, Len(s) - 1))
         + (IndexIn(digits, s[Len(s)]) - 1)

\* Python truthiness of a cell value, for "x or 0"
falsy(cell) ==
    \/ cell.k = "num" /\ cell.n = 0
    \/ cell.k = "str" /\ cell.s = <<>>

\* utils.py 157-158: float(row.get('debit', 0) or 0) on the column after
\* fillna(0.0); float() of text that is no number raises ValueError
to_float(cell) ==
    LET v == fillna(cell, Num(0)) IN
    IF falsy(v) THEN [raised |-> FALSE, value |-> 0]
    ELSE IF v.k = "num" THEN [raised |-> FALSE, value |-> v.n]
    ELSE IF v.k = "str" /\ is_numeral(strip(v.s))
         THEN [raised |-> FALSE, value |-> parse_int(strip(v.s))]
    ELSE [raised |-> TRUE, value |-> 0]

\* utils.py 151-160: Transaction(...)
Transaction(row, normalized_head, company_id) ==
    [company_id      |-> company_id,
     date            |-> to_datetime(row.Date),
     head_of_account |-> normalized_head,
     category        |-> fillna(row.Category, Str(<<>>)).s,
     description     |-> fillna(row.Description, Str(<<>>)).s,
     debit           |-> to_float(row.Debit).value,
     credit          |-> to_float(row.Credit).value]

\* utils.py 144-162: the second pass; added is what db.session.add received
RECURSIVE add_transactions(_, _, _, _, _)
add_transactions(df, i, map, company_id, added) ==
    IF i > Len(df) THEN [raised |-> FALSE, added |-> added]
    ELSE IF ~has_head(df[i])
         THEN add_transactions(df, i + 1, map, company_id, added)
    ELSE IF to_float(df[i].Debit).raised \/ to_float(df[i].Credit).raised
         THEN [raised |-> TRUE, added |-> added]
    ELSE add_transactions(df, i + 1, map, company_id,
            Append(added,
                   Transaction(df[i], map_get(map, upper(head_of(df[i]))),
                               company_id)))

\* utils.py 89-168: raised, or the transactions added and their count
process_excel_data(file_data, company_id) ==
    IF missing_columns(file_data) # <<>>
    THEN [raised |-> TRUE, added |-> <<>>, transaction_count |-> 0]
    ELSE LET df == dropna(file_data.rows)
             r  == add_transactions(df, 1, head_of_accounts_map(df),
                                    company_id, <<>>)
         IN  [raised |-> r.raised, added |-> r.added,
              transaction_count |-> Len(r.added)]

(***************************************************************************)
(* The database and upload_file (routes.py 41-117).                        *)
(***************************************************************************)
EmptyDb == [company |-> <<>>, transaction |-> <<>>, company_file |-> {}]

NoFlash == [category |-> "none", count |-> 0, company |-> 0]

NoHist ==
    [existed |-> FALSE, prior |-> 0, lacking |-> {}, storage_fails |-> FALSE,
     same_file |-> FALSE]

NoResponse == [op |-> "none", company_id |-> 0, arg |-> <<>>, rows |-> <<>>]

\* routes.py 69: Company.query.filter_by(name=company_name).first()
company_by_name(tables, name) == IndexIn(tables.company, name)

transactions_of(tables, company_id) ==
    SelectSeq(tables.transaction, LAMBDA t : t.company_id = company_id)

\* mutant of delete_transactions: the prior transactions are kept
delete_transactions_none(tables, company_id) == tables

\* mutant of delete_transactions: the delete is not filtered by company
delete_transactions_all(tables, company_id) ==
    [tables EXCEPT !.transaction = <<>>]

\* routes.py 73: Transaction.query.filter_by(company_id=company.id).delete()
delete_transactions(tables, company_id) ==
    [tables EXCEPT !.transaction =
        SelectSeq(@, LAMBDA t : t.company_id # company_id)]

\* routes.py 77-78: Company(name=company_name); db.session.add(company)
add_company(tables, name) ==
    [tables EXCEPT !.company = Append(@, name)]

\* routes.py 88-101: delete the company's file, flush, add the new file
replace_file(tables, company_id, file_data) ==
    [tables EXCEPT !.company_file =
        {f \in @ : f.company_id # company_id}
        \cup {[company_id |-> company_id, file_data |-> file_data]}]

\* routes.py 104 with utils.py 161: the added transactions reach the table
add_all(tables, added) ==
    [tables EXCEPT !.transaction = @ \o added]

\* routes.py 68-80: the company step of upload_file.  For a known name the
\* delete stays in the unit of work; for a new name the Company is committed.
UploadBegin(name) ==
    /\ pc = "idle"
    /\ LET id == company_by_name(db, name) IN
       IF id # 0
       THEN /\ session' = delete_transactions(db, id)
            /\ db' = db
            /\ company' = id
       ELSE /\ db' = add_company(db, name)
            /\ session' = add_company(db, name)
            /\ company' = Len(db.company) + 1
    /\ pc' = "processing"
    /\ old' = db
    /\ seen' = <<>>
    /\ flash' = NoFlash
    /\ hist' = NoHist
    /\ response' = NoResponse

\* routes.py 82-113: the try block of upload_file.  storage_fails is a
\* flush or commit that raises; any exception rolls the unit of work back.
UploadFinish(file_data, storage_fails) ==
    /\ pc = "processing"
    /\ LET r      == process_excel_data(file_data, company)
           staged == add_all(replace_file(session, company, file_data),
                             r.added)
       IN  IF ~r.raised /\ ~storage_fails
           THEN /\ db' = staged
                /\ flash' = [category |-> "success",
                             count    |-> r.transaction_count,
                             company  |-> company]
           ELSE /\ db' = db
                /\ flash' = [category |-> "error", count |-> 0,
                             company  |-> company]
    /\ pc' = "idle"
    /\ session' = EmptyDb
    /\ company' = 0
    /\ old' = EmptyDb
    /\ seen' = <<>>
    /\ hist' = [existed       |-> company <= Len(old.company),
                prior         |-> Len(transactions_of(old, company)),
                lacking       |-> Range(required_columns) \ file_data.columns,
                storage_fails |-> storage_fails,
                same_file     |-> \E f \in old.company_file :
                                     /\ f.company_id = company
                                     /\ f.file_data = file_data]
    /\ UNCHANGED response

\* a read request (index, ledger, special_report, trial_balance) served
\* while an upload is in flight: it reads committed data only
Reader ==
    /\ pc = "processing"
    /\ seen' = <<db>>
    /\ UNCHANGED <<db, session, pc, company, old, flash, hist, response>>

(***************************************************************************)
(* The report builders (utils.py 170-326).  The days column of the ledger  *)
(* (today minus the date) is left out.  ORDER BY on text is taken in code  *)
(* point order.                                                            *)
(***************************************************************************)
code_points ==
    <<" ", "/", "0", "1", "2", "3", "4", "5", "6", "7", "8", "9",
      "A", "B", "C", "a", "b", "c">>

RECURSIVE text_less(_, _)
text_less(s, t) ==
    IF s = <<>> THEN t # <<>>
    ELSE IF t = <<>> THEN FALSE
    ELSE IF Head(s) = Head(t) THEN text_less(Tail(s), Tail(t))
    ELSE IndexIn(code_points, Head(s)) < IndexIn(code_points, Head(t))

\* ORDER BY head_of_account over DISTINCT / GROUP BY heads
RECURSIVE order_by_text(_)
order_by_text(S) ==
    IF S = {} THEN <<>>
    ELSE LET least == CHOOSE x \in S : \A y \in S \ {x} : text_less(x, y)
         IN  <<least>> \o order_by_text(S \ {least})

\* SQL sum() of a column over the selected rows
RECURSIVE sum_debit(_)
sum_debit(ts) == IF ts = <<>> THEN 0 ELSE Head(ts).debit + sum_debit(Tail(ts))

RECURSIVE sum_credit(_)
sum_credit(ts) ==
    IF ts = <<>> THEN 0 ELSE Head(ts).credit + sum_credit(Tail(ts))

\* models.py 62-65: date.strftime("%d/%m/%Y"), as <<dd, mm, yyyy>>
formatted_date(date) == <<date % 100, (date \div 100) % 100, date \div 10000>>

\* mutant of insert_by_date: a row goes before the rows of its own date
insert_before_ties(sorted, t) ==
    LET k == Cardinality({i \in DOMAIN sorted : sorted[i].date < t.date})
    IN  SubSeq(sorted, 1, k) \o <<t>> \o SubSeq(sorted, k + 1, Len(sorted))

\* utils.py 184: one step of ORDER BY date, id over rows taken in id order
insert_by_date(sorted, t) ==
    LET k == Cardinality({i \in DOMAIN sorted : sorted[i].date <= t.date})
    IN  SubSeq(sorted, 1, k) \o <<t>> \o SubSeq(sorted, k + 1, Len(sorted))

RECURSIVE order_by_date_id(_, _)
order_by_date_id(ts, sorted) ==
    IF ts = <<>> THEN sorted
    ELSE order_by_date_id(Tail(ts), insert_by_date(sorted, Head(ts)))

\* utils.py 187-207: the running balance over the ordered rows
RECURSIVE ledger_rows(_, _, _)
ledger_rows(ts, balance, ledger_data) ==
    IF ts = <<>> THEN ledger_data
    ELSE LET t == Head(ts)
             b == balance + t.debit - t.credit
         IN  ledger_rows(Tail(ts), b,
                Append(ledger_data,
                       [date        |-> formatted_date(t.date),
                        description |-> t.description,
                        debit       |-> t.debit,
                        credit      |-> t.credit,
                        balance     |-> b]))

\* utils.py 170-207
get_ledger_data(tables, company_id, head_of_account) ==
    LET normalized_head == upper(strip(head_of_account))
        transactions ==
            order_by_date_id(
                SelectSeq(tables.transaction,
                          LAMBDA t : /\ t.company_id = company_id
                                     /\ upper(t.head_of_account)
                                           = normalized_head),
                <<>>)
    IN  ledger_rows(transactions, 0, <<>>)

\* mutant of skip_zero: zero-balance accounts are reported too
skip_zero_never(balance) == FALSE

\* utils.py 242 and 292: "if balance != 0" guards the row
skip_zero(balance) == balance = 0

\* utils.py 225-248: the report row of one head, <<>> when it is skipped
special_report_row(tables, company_id, head_of_account) ==
    LET result == SelectSeq(tables.transaction,
                            LAMBDA t : /\ t.company_id = company_id
                                       /\ t.head_of_account = head_of_account)
        total_debit  == sum_debit(result)
        total_credit == sum_credit(result)
        balance      == total_debit - total_credit
    IN  IF skip_zero(balance) THEN <<>>
        ELSE <<[head_of_account |-> head_of_account,
                debit   |-> total_debit,
                credit  |-> total_credit,
                balance |-> balance]>>

RECURSIVE special_report_rows(_, _, _)
special_report_rows(tables, company_id, heads) ==
    IF heads = <<>> THEN <<>>
    ELSE special_report_row(tables, company_id, Head(heads))
         \o special_report_rows(tables, company_id, Tail(heads))

\* utils.py 209-250
get_special_report_data(tables, company_id, category) ==
    LET heads == order_by_text(
            {t.head_of_account :
                t \in {u \in Range(tables.transaction) :
                          /\ u.company_id = company_id
                          /\ u.category = category
                          /\ u.head_of_account # <<>>}})
    IN  special_report_rows(tables, company_id, heads)

all_periods == <<"a", "l", "l">>

\* utils.py 269: month, year = period.split('/'), then int() of each
split_period(period) ==
    LET k == IndexIn(period, "/")
    IN  [month |-> parse_int(SubSeq(period, 1, k - 1)),
         year  |-> parse_int(SubSeq(period, k + 1, Len(period)))]

\* utils.py 262-273: the rows the trial balance query selects
in_period(t, company_id, period) ==
    /\ t.company_id = company_id
    /\ t.head_of_account # <<>>
    /\ period # all_periods =>
          /\ (t.date \div 100) % 100 = split_period(period).month
          /\ t.date \div 10000 = split_period(period).year

\* mutant of trial_balance_row: a credit balance is put in the debit column
trial_balance_row_debit_only(head_of_account, account_debit, account_credit) ==
    LET balance == account_debit - account_credit
    IN  IF skip_zero(balance) THEN <<>>
        ELSE <<[head_of_account |-> head_of_account,
                debit  |-> IF balance > 0 THEN balance ELSE -balance,
                credit |-> 0,
                is_total |-> FALSE, is_difference |-> FALSE]>>

\* utils.py 285-304: the row of one group, <<>> when it is skipped
trial_balance_row(head_of_account, account_debit, account_credit) ==
    LET balance == account_debit - account_credit
    IN  IF skip_zero(balance) THEN <<>>
        ELSE <<[head_of_account |-> head_of_account,
                debit  |-> IF balance > 0 THEN balance ELSE 0,
                credit |-> IF balance > 0 THEN 0 ELSE -balance,
                is_total |-> FALSE, is_difference |-> FALSE]>>

RECURSIVE trial_balance_rows(_, _)
trial_balance_rows(selected, heads) ==
    IF heads = <<>> THEN <<>>
    ELSE LET group == SelectSeq(selected,
                        LAMBDA t : t.head_of_account = Head(heads))
         IN  trial_balance_row(Head(heads), sum_debit(group),
                               sum_credit(group))
             \o trial_balance_rows(selected, Tail(heads))

\* mutant of difference_row: the excess is put in the other column
difference_row_swapped(total_debit, total_credit) ==
    LET difference == total_debit - total_credit
    IN  IF difference = 0 THEN <<>>
        ELSE <<[head_of_account |-> <<"DIFFERENCE">>,
                debit  |-> IF difference < 0 THEN -difference ELSE 0,
                credit |-> IF difference > 0 THEN difference ELSE 0,
                is_total |-> FALSE, is_difference |-> TRUE]>>

\* utils.py 317-324
difference_row(total_debit, total_credit) ==
    LET difference == total_debit - total_credit
    IN  IF difference = 0 THEN <<>>
        ELSE <<[head_of_account |-> <<"DIFFERENCE">>,
                debit  |-> IF difference > 0 THEN difference ELSE 0,
                credit |-> IF difference < 0 THEN -difference ELSE 0,
                is_total |-> FALSE, is_difference |-> TRUE]>>

\* utils.py 252-326
get_trial_balance_data(tables, company_id, period) ==
    LET selected == SelectSeq(tables.transaction,
                        LAMBDA t : in_period(t, company_id, period))
        results  == order_by_text({t.head_of_account : t \in Range(selected)})
        trial_balance_data == trial_balance_rows(selected, results)
        total_debit  == sum_debit(trial_balance_data)
        total_credit == sum_credit(trial_balance_data)
    IN  trial_balance_data
        \o <<[head_of_account |-> <<"TOTAL">>,
              debit |-> total_debit, credit |-> total_credit,
              is_total |-> TRUE, is_difference |-> FALSE]>>
        \o difference_row(total_debit, total_credit)

\* routes.py 126-159: /ledger for the selected company and account
Ledger(company_id, account) ==
    /\ pc = "idle"
    /\ company_id \in DOMAIN db.company
    /\ response' = [op |-> "ledger", company_id |-> company_id,
                    arg |-> account,
                    rows |-> IF account # <<>>
                             THEN get_ledger_data(db, company_id, account)
                             ELSE <<>>]
    /\ UNCHANGED <<db, session, pc, company, old, seen, flash, hist>>

\* routes.py 161-187: /special_report for the selected company and category
SpecialReport(company_id, category) ==
    /\ pc = "idle"
    /\ company_id \in DOMAIN db.company
    /\ response' = [op |-> "special_report", company_id |-> company_id,
                    arg |-> category,
                    rows |-> IF category # <<>>
                             THEN get_special_report_data(db, company_id,
                                                          category)
                             ELSE <<>>]
    /\ UNCHANGED <<db, session, pc, company, old, seen, flash, hist>>

\* routes.py 189-219: /trial_balance for the selected company and period
TrialBalance(company_id, period) ==
    /\ pc = "idle"
    /\ company_id \in DOMAIN db.company
    /\ response' = [op |-> "trial_balance", company_id |-> company_id,
                    arg |-> period,
                    rows |-> get_trial_balance_data(db, company_id, period)]
    /\ UNCHANGED <<db, session, pc, company, old, seen, flash, hist>>

\* routes.py 68-113 as one step without a storage failure: the committed
\* tables after upload_file(name, file_data) served on tables
upload_file(tables, name, file_data) ==
    LET id      == company_by_name(tables, name)
        begun   == IF id # 0 THEN tables ELSE add_company(tables, name)
        work    == IF id # 0 THEN delete_transactions(tables, id) ELSE begun
        cid     == IF id # 0 THEN id ELSE Len(tables.company) + 1
        r       == process_excel_data(file_data, cid)
    IN  IF r.raised THEN begun
        ELSE add_all(replace_file(work, cid, file_data), r.added)

(***************************************************************************)
(* Inputs of the upload specification: two company names, and sheets of    *)
(* up to MaxRows rows with and without the required columns.               *)
(***************************************************************************)
Names == {"Acme", "Beta"}

all_columns == Range(required_columns) \cup {"Category", "Description"}

UploadRows ==
    { Row(Timestamp(20240101), Str(<<"a">>), Str(<<"x">>), Str(<<"p">>),
          Num(1), NaN),
      Row(Timestamp(20240105), Str(<<"b">>), Str(<<"x">>), Str(<<"q">>),
          NaN, Num(2)),
      Row(Timestamp(20240105), Str(<<"a">>), Str(<<"x">>), Str(<<"r">>),
          Str(<<"n">>), NaN) }

SeqsUpTo(S, n) == UNION {[1..m -> S] : m \in 0..n}

UploadFiles ==
    {File(all_columns, rows) : rows \in SeqsUpTo(UploadRows, MaxRows)}
    \cup {File(all_columns \ {col}, rows) :
            col \in {"Credit", "Date"}, rows \in SeqsUpTo(UploadRows, 1)}

Init ==
    /\ db = EmptyDb
    /\ session = EmptyDb
    /\ pc = "idle"
    /\ company = 0
    /\ old = EmptyDb
    /\ seen = <<>>
    /\ flash = NoFlash
    /\ hist = NoHist
    /\ response = NoResponse

Next ==
    \/ \E name \in Names : UploadBegin(name)
    \/ \E file_data \in UploadFiles, storage_fails \in BOOLEAN :
          UploadFinish(file_data, storage_fails)
    \/ Reader

Spec == Init /\ [][Next]_vars


(***************************************************************************)
(* Claims about upload_file, checked under Spec.                           *)
(***************************************************************************)
finishing == pc = "processing" /\ pc' = "idle"

files_of(tables, company_id) ==
    {f \in tables.company_file : f.company_id = company_id}

\* C1: an upload that fails leaves the committed state (the companies and
\* every company's transactions and file) exactly as it was when the upload
\* began, for a known company name and for a new one.
C1_AtomicOnFailure ==
    [][(finishing /\ flash'.category = "error") => db' = old]_vars

\* C2: a successful upload for an existing company leaves that company
\* with exactly the transactions the new file yields, in file order, and
\* with the new file; the reported count is their number; uploading the
\* file the company already holds changes neither the transactions nor the
\* count.
C2_ReplaceNotMerge ==
    [][(finishing /\ flash'.category = "success" /\ hist'.existed) =>
          /\ \E f \in db'.company_file :
                /\ files_of(db', company) = {f}
                /\ ~process_excel_data(f.file_data, company).raised
                /\ transactions_of(db', company)
                      = process_excel_data(f.file_data, company).added
          /\ flash'.count = Len(transactions_of(db', company))
          /\ hist'.same_file =>
                /\ transactions_of(db', company) = transactions_of(old, company)
                /\ flash'.count = hist'.prior
                /\ files_of(db', company) = files_of(old, company)]_vars

\* C2 witness: a company that held two transactions holds one after a
\* successful upload of a one-row file.
C2_Witness ==
    /\ pc = "idle" /\ flash.category = "success" /\ hist.existed
    /\ hist.prior = 2 /\ flash.count = 1
    /\ Len(transactions_of(db, flash.company)) = 1

\* C3: an upload of a file that lacks a required column fails, reports no
\* transaction, persists none, and leaves the company's prior transactions
\* and prior file as they were.
C3_MissingColumnRejected ==
    [][(finishing /\ hist'.lacking # {}) =>
          /\ flash'.category = "error"
          /\ flash'.count = 0
          /\ transactions_of(db', company) = transactions_of(old, company)
          /\ files_of(db', company) = files_of(old, company)
          /\ db'.transaction = old.transaction]_vars

\* C3 witness: a company with transactions and a file was sent a file that
\* lacks a required column, and still holds them.
C3_Witness ==
    /\ pc = "idle" /\ flash.category = "error" /\ hist.lacking # {}
    /\ hist.existed /\ hist.prior > 0 /\ ~hist.storage_fails
    /\ Len(transactions_of(db, flash.company)) = hist.prior
    /\ files_of(db, flash.company) # {}

\* C4: what a request reads while an upload is in flight is the committed
\* state from before the upload began or the one after it finished.
C4_ReaderSeesOldOrNew ==
    [][(finishing /\ seen # <<>>) => (seen[1] = old \/ seen[1] = db')]_vars

\* C7: a Debit or Credit cell that is empty or holds text that is no
\* number is stored as 0 and never makes the upload fail: an upload of a
\* file with all the required columns, with no storage failure, succeeds.
C7_RowDefectsNotFatal ==
    [][(finishing /\ hist'.lacking = {} /\ ~hist'.storage_fails) =>
          flash'.category = "success"]_vars

\* every report of a company on the given tables
reports_of(tables, company_id) ==
    [ledger  |-> [account \in {<<"a">>, <<"b">>} |->
                     get_ledger_data(tables, company_id, account)],
     special |-> get_special_report_data(tables, company_id, <<"x">>),
     trial   |-> [period \in {all_periods,
                              <<"0", "1", "/", "2", "0", "2", "4">>} |->
                     get_trial_balance_data(tables, company_id, period)]]

same_data(company_id, before, after) ==
    /\ transactions_of(after, company_id) = transactions_of(before, company_id)
    /\ files_of(after, company_id) = files_of(before, company_id)

\* the company an upload step works for
uploading == IF pc = "idle" THEN company' ELSE company

\* C13: no step of an upload for one company changes the transactions or
\* the file of another company; when the upload ends, whether it succeeded
\* or failed, every other company has the transactions, the file and the
\* reports it had before the upload began; and every stored transaction
\* carries the id of one existing company.
C13_CompanyIsolation ==
    [][/\ \A b \in DOMAIN db.company :
             b # uploading => same_data(b, db, db')
       /\ finishing =>
             \A b \in DOMAIN old.company :
                 b # company => /\ same_data(b, old, db')
                                /\ reports_of(db', b) = reports_of(old, b)
       /\ \A i \in DOMAIN db'.transaction :
             db'.transaction[i].company_id \in DOMAIN db'.company]_vars

\* C13 witness: two companies hold transactions and the last upload
\* replaced those of one of them.
C13_Witness ==
    /\ pc = "idle" /\ flash.category = "success"
    /\ hist.existed /\ hist.prior > 0 /\ ~hist.same_file
    /\ \E b \in DOMAIN db.company :
          /\ b # flash.company
          /\ Len(transactions_of(db, b)) = 2
          /\ reports_of(db, b).trial[all_periods] # <<>>
          /\ Len(reports_of(db, b).ledger[<<"a">>]) > 0

(***************************************************************************)
(* The row specification: one company, sheets with all the columns whose   *)
(* rows carry the defects the parser meets (no date, no head, blank head,  *)
(* case and blank variants of a head, text in an amount cell).             *)
(***************************************************************************)
RowNames == {"Acme"}

HeadRow(date, head, debit) ==
    Row(date, head, Str(<<"x">>), Str(<<"p">>), debit, NaN)

RowCases ==
    { HeadRow(Timestamp(20240101), Str(<<"a">>), Num(1)),
      HeadRow(Timestamp(20240101), Str(<<"A", " ">>), Num(2)),
      HeadRow(Timestamp(20240101), Str(<<"b">>), NaN),
      HeadRow(Timestamp(20240101), Str(<<" ">>), Num(1)),
      HeadRow(Timestamp(20240101), Str(<<>>), Num(1)),
      HeadRow(Timestamp(20240101), NaN, Num(1)),
      HeadRow(Str(<<"?">>), Str(<<"A">>), Num(1)),
      HeadRow(Timestamp(20240101), Str(<<"a">>), Str(<<"n">>)) }

RowFiles == {File(all_columns, rows) : rows \in SeqsUpTo(RowCases, MaxRows)}

NextRows ==
    \/ \E name \in RowNames : UploadBegin(name)
    \/ \E file_data \in RowFiles : UploadFinish(file_data, FALSE)

SpecRows == Init /\ [][NextRows]_vars

\* C5: no stored transaction has an empty head_of_account.
C5_NoEmptyHead ==
    \A i \in DOMAIN db.transaction :
        db.transaction[i].head_of_account # <<>>

\* the rows of a sheet that survive the row filter: a date that parses and
\* a head that is neither missing nor empty
survives(row) ==
    /\ row.Date.k = "date"
    /\ row.Head.k = "str"
    /\ row.Head.s # <<>>

same_account(s, t) == upper(strip(s)) = upper(strip(t))

\* C6: every stored transaction carries the trimmed spelling of the first
\* surviving row of its company's file whose head equals its own ignoring
\* case, so two stored heads of a company that are equal ignoring case are
\* identical.
C6_CaseFoldMerge ==
    /\ \A i, j \in DOMAIN db.transaction :
          LET t == db.transaction[i]
              u == db.transaction[j]
          IN  (t.company_id = u.company_id
               /\ upper(t.head_of_account) = upper(u.head_of_account))
              => t.head_of_account = u.head_of_account
    /\ \A f \in db.company_file :
          LET rows  == f.file_data.rows
              kept  == {i \in DOMAIN rows : survives(rows[i])}
              first(i) == CHOOSE m \in kept :
                            /\ same_account(rows[m].Head.s, rows[i].Head.s)
                            /\ \A n \in kept :
                                  same_account(rows[n].Head.s, rows[i].Head.s)
                                  => m <= n
              stored == transactions_of(db, f.company_id)
          IN  /\ Len(stored) = Cardinality(kept)
              /\ \A i \in kept :
                    LET k == Cardinality({n \in kept : n <= i})
                    IN  stored[k].head_of_account
                           = strip(rows[first(i)].Head.s)

\* C6 witness: a stored sheet with two surviving rows whose heads differ in
\* spelling but not ignoring case and blanks: both are stored as "a".
C6_Witness ==
    \E f \in db.company_file :
        /\ Len(f.file_data.rows) >= 2
        /\ \E i, j \in DOMAIN f.file_data.rows :
              /\ i < j
              /\ survives(f.file_data.rows[i]) /\ survives(f.file_data.rows[j])
              /\ f.file_data.rows[i].Head.s # f.file_data.rows[j].Head.s
              /\ same_account(f.file_data.rows[i].Head.s,
                              f.file_data.rows[j].Head.s)
        /\ Len(transactions_of(db, f.company_id)) = 2
        /\ \A i \in DOMAIN db.transaction :
              db.transaction[i].head_of_account = <<"a">>

(***************************************************************************)
(* The report specification: the database holds what an upload for "Acme"  *)
(* of a sheet of up to MaxReportRows rows and an upload for "Beta" left,   *)
(* and the three reports are requested for either company.                 *)
(***************************************************************************)
ReportRows ==
    { Row(Timestamp(20240101), Str(<<"a">>), Str(<<"x">>), Str(<<"p">>),
          Num(1), NaN),
      Row(Timestamp(20240105), Str(<<"A">>), Str(<<"y">>), Str(<<"q">>),
          NaN, Num(1)),
      Row(Timestamp(20240101), Str(<<"a">>), Str(<<"x">>), Str(<<"r">>),
          Num(2), NaN),
      Row(Timestamp(20240105), Str(<<"b">>), Str(<<"x">>), Str(<<"p">>),
          NaN, Num(2)),
      Row(Timestamp(20240301), Str(<<"b">>), Str(<<"y">>), Str(<<"q">>),
          Num(2), Num(1)),
      Row(Timestamp(20250301), Str(<<"c">>), Str(<<"x">>), Str(<<"p">>),
          Num(3), NaN),
      Row(Timestamp(20240101), Str(<<" ">>), Str(<<"x">>), Str(<<"p">>),
          Num(1), NaN) }

ReportFiles ==
    {File(all_columns, rows) : rows \in SeqsUpTo(ReportRows, MaxReportRows)}

BetaFile ==
    File(all_columns,
         << Row(Timestamp(20240101), Str(<<"a">>), Str(<<"x">>), Str(<<"s">>),
                Num(5), NaN),
            Row(Timestamp(20240301), Str(<<"b">>), Str(<<"y">>), Str(<<"s">>),
                NaN, Num(7)) >>)

Accounts == {<<"a">>, <<"A">>, <<" ", "a">>, <<"b">>, <<" ">>, <<>>}

Categories == {<<"x">>, <<"y">>, <<>>}

Periods ==
    { all_periods,
      <<"0", "1", "/", "2", "0", "2", "4">>,
      <<"0", "3", "/", "2", "0", "2", "4">> }

InitReports ==
    /\ \E file_data \in ReportFiles :
          db = upload_file(upload_file(EmptyDb, "Acme", file_data),
                           "Beta", BetaFile)
    /\ session = EmptyDb
    /\ pc = "idle"
    /\ company = 0
    /\ old = EmptyDb
    /\ seen = <<>>
    /\ flash = NoFlash
    /\ hist = NoHist
    /\ response = NoResponse

NextReports ==
    \/ \E company_id \in 1..2, account \in Accounts :
          Ledger(company_id, account)
    \/ \E company_id \in 1..2, category \in Categories :
          SpecialReport(company_id, category)
    \/ \E company_id \in 1..2, period \in Periods :
          TrialBalance(company_id, period)

SpecReports == InitReports /\ [][NextReports]_vars

RECURSIVE SumOver(_, _)
SumOver(S, amount) ==
    IF S = {} THEN 0
    ELSE LET x == CHOOSE y \in S : TRUE
         IN  amount[x] + SumOver(S \ {x}, amount)

net ==
    [i \in DOMAIN db.transaction |->
        db.transaction[i].debit - db.transaction[i].credit]

\* the ledger rows are the transactions at the table positions M, ordered
\* by date and then by position, each with the sum of debit - credit of
\* the rows up to it
LedgerIs(M) ==
    LET tbl == db.transaction
        upto(i) == {j \in M : \/ tbl[j].date < tbl[i].date
                              \/ tbl[j].date = tbl[i].date /\ j <= i}
    IN  /\ Len(response.rows) = Cardinality(M)
        /\ \A i \in M :
              LET row == response.rows[Cardinality(upto(i))]
              IN  /\ row.date = <<tbl[i].date % 100,
                                  (tbl[i].date \div 100) % 100,
                                  tbl[i].date \div 10000>>
                  /\ row.description = tbl[i].description
                  /\ row.debit = tbl[i].debit
                  /\ row.credit = tbl[i].credit
                  /\ row.balance = SumOver(upto(i), net)

\* C8 as claimed: the ledger is built from the company's transactions
\* whose head equals the requested name ignoring case.
C8_LedgerMatchesIgnoringCase ==
    (response.op = "ledger" /\ response.arg # <<>>) =>
        LedgerIs({i \in DOMAIN db.transaction :
                    /\ db.transaction[i].company_id = response.company_id
                    /\ upper(db.transaction[i].head_of_account)
                          = upper(response.arg)})

\* C8 as amended: the ledger is built from the company's transactions
\* whose head equals the requested name, trimmed of surrounding blanks,
\* ignoring case; it is in date order, ties in insertion order, the k-th
\* balance is the sum of debit - credit over the first k rows, and it is
\* empty when nothing matches.
C8_LedgerRunningBalance ==
    (response.op = "ledger" /\ response.arg # <<>>) =>
        LedgerIs({i \in DOMAIN db.transaction :
                    /\ db.transaction[i].company_id = response.company_id
                    /\ upper(db.transaction[i].head_of_account)
                          = upper(strip(response.arg))})

\* C8 witness: a ledger of three rows, asked for under another spelling,
\* two of them on one date, with a balance that rises and falls.
C8_Witness ==
    /\ response.op = "ledger" /\ Len(response.rows) = 3
    /\ response.arg = <<"A">>
    /\ response.rows[1].date = response.rows[2].date
    /\ response.rows[1].description = <<"r">>
    /\ response.rows[2].description = <<"p">>
    /\ response.rows[2].balance = 3
    /\ response.rows[3].balance = 2

account_rows(rows) ==
    {i \in DOMAIN rows : ~rows[i].is_total /\ ~rows[i].is_difference}

row_debit == [i \in DOMAIN response.rows |-> response.rows[i].debit]

row_credit == [i \in DOMAIN response.rows |-> response.rows[i].credit]

\* C9: the trial balance has exactly one TOTAL row, after every account
\* row, holding the sums of the account rows' debit and credit columns;
\* a DIFFERENCE row follows exactly when the two sums differ, with their
\* distance in the debit column when debit is the larger, else in the
\* credit column, and 0 in the other.
C9_TrialBalanceReconciles ==
    response.op = "trial_balance" =>
        LET rows == response.rows
            acct == account_rows(rows)
            k    == Cardinality(acct) + 1
            td   == SumOver(acct, row_debit)
            tc   == SumOver(acct, row_credit)
        IN  /\ acct = 1..(k - 1)
            /\ Len(rows) >= k
            /\ {i \in DOMAIN rows : rows[i].is_total} = {k}
            /\ ~rows[k].is_difference
            /\ rows[k].debit = td /\ rows[k].credit = tc
            /\ Len(rows) = IF td = tc THEN k ELSE k + 1
            /\ td # tc =>
                  /\ rows[k + 1].is_difference
                  /\ rows[k + 1].debit = (IF td > tc THEN td - tc ELSE 0)
                  /\ rows[k + 1].credit = (IF td > tc THEN 0 ELSE tc - td)

\* C9 witness: two account rows, totals 1 and 2, and a DIFFERENCE of 1 in
\* the credit column.
C9_Witness ==
    /\ response.op = "trial_balance" /\ Len(response.rows) = 4
    /\ response.rows[3].is_total
    /\ response.rows[3].debit = 1 /\ response.rows[3].credit = 2
    /\ response.rows[4].is_difference
    /\ response.rows[4].debit = 0 /\ response.rows[4].credit = 1

debit_at == [i \in DOMAIN db.transaction |-> db.transaction[i].debit]

credit_at == [i \in DOMAIN db.transaction |-> db.transaction[i].credit]

month_year(period) ==
    <<10 * (IndexIn(digits, period[1]) - 1) + IndexIn(digits, period[2]) - 1,
      1000 * (IndexIn(digits, period[4]) - 1)
        + 100 * (IndexIn(digits, period[5]) - 1)
        + 10 * (IndexIn(digits, period[6]) - 1)
        + IndexIn(digits, period[7]) - 1>>

\* the table positions a report for the company (and period) counts under
\* the head
counted(company_id, head, period) ==
    {i \in DOMAIN db.transaction :
        /\ db.transaction[i].company_id = company_id
        /\ db.transaction[i].head_of_account = head
        /\ period # all_periods =>
              /\ (db.transaction[i].date \div 100) % 100 = month_year(period)[1]
              /\ db.transaction[i].date \div 10000 = month_year(period)[2]}

\* C10: no account whose debits and credits are equal is a row of the
\* category report or of the trial balance, and an account row of the
\* trial balance holds its balance in the debit column when it is
\* positive and its magnitude in the credit column when it is negative,
\* with 0 in the other column.
C10_ZeroBalanceSuppressed ==
    /\ response.op = "special_report" =>
          \A i \in DOMAIN response.rows :
              LET row == response.rows[i]
                  S   == counted(response.company_id, row.head_of_account,
                                 all_periods)
              IN  /\ SumOver(S, debit_at) # SumOver(S, credit_at)
                  /\ row.debit # row.credit
    /\ response.op = "trial_balance" =>
          \A i \in account_rows(response.rows) :
              LET row == response.rows[i]
                  S   == counted(response.company_id, row.head_of_account,
                                 response.arg)
                  bal == SumOver(S, debit_at) - SumOver(S, credit_at)
              IN  /\ bal # 0
                  /\ (row.debit # 0) # (row.credit # 0)
                  /\ bal > 0 => (row.debit = bal /\ row.credit = 0)
                  /\ bal < 0 => (row.debit = 0 /\ row.credit = -bal)

\* C10 witness: the company holds account "a" with equal debits and
\* credits and another account; the trial balance shows only the other,
\* as a credit.
C10_Witness ==
    /\ response.op = "trial_balance" /\ response.arg = all_periods
    /\ response.company_id = 1
    /\ counted(1, <<"a">>, all_periods) # {}
    /\ SumOver(counted(1, <<"a">>, all_periods), debit_at)
          = SumOver(counted(1, <<"a">>, all_periods), credit_at)
    /\ Len(response.rows) = 3
    /\ response.rows[1].head_of_account = <<"b">>
    /\ response.rows[1].debit = 0 /\ response.rows[1].credit = 2

\* the table positions of the company's transactions dated in the period
included(company_id, period) ==
    {i \in DOMAIN db.transaction :
        /\ db.transaction[i].company_id = company_id
        /\ period # all_periods =>
              /\ (db.transaction[i].date \div 100) % 100 = month_year(period)[1]
              /\ db.transaction[i].date \div 10000 = month_year(period)[2]}

\* the trial balance response is the netting, head by head, of the
\* company's transactions dated in the period whose head is in heads:
\* one account row for each head whose net is not 0, holding that net
TrialBalanceAggregates(heads) ==
    LET cid  == response.company_id
        rows == response.rows
        net_of(h) == SumOver(counted(cid, h, response.arg), net)
    IN  /\ {rows[i].head_of_account : i \in account_rows(rows)}
              = {h \in heads : net_of(h) # 0}
        /\ \A i \in account_rows(rows) :
              rows[i].debit - rows[i].credit = net_of(rows[i].head_of_account)

\* C11: a trial balance for "MM/YYYY" aggregates the company's
\* transactions dated in that month and year and no others, one for "all"
\* aggregates every transaction of the company, and no transaction of
\* another company is counted.
C11_PeriodFilter ==
    response.op = "trial_balance" =>
        TrialBalanceAggregates(
            {db.transaction[i].head_of_account :
                i \in included(response.company_id, response.arg)})

\* C11 restricted to the transactions whose head_of_account is not empty
\* (holds).
C11_PeriodFilterOfNamedHeads ==
    response.op = "trial_balance" =>
        TrialBalanceAggregates(
            {db.transaction[i].head_of_account :
                i \in included(response.company_id, response.arg)}
            \ {<<>>})

\* the category report has one row for each head in heads whose debits and
\* credits over all the company's transactions differ, holding those sums
SpecialReportAggregates(heads) ==
    LET cid  == response.company_id
        rows == response.rows
        S(h) == counted(cid, h, all_periods)
    IN  /\ {rows[i].head_of_account : i \in DOMAIN rows}
              = {h \in heads :
                    SumOver(S(h), debit_at) # SumOver(S(h), credit_at)}
        /\ Len(rows) = Cardinality({rows[i].head_of_account :
                                       i \in DOMAIN rows})
        /\ \A i \in DOMAIN rows :
              /\ rows[i].debit = SumOver(S(rows[i].head_of_account), debit_at)
              /\ rows[i].credit
                    = SumOver(S(rows[i].head_of_account), credit_at)
              /\ rows[i].balance = rows[i].debit - rows[i].credit

in_category(company_id, category) ==
    {db.transaction[i].head_of_account :
        i \in {j \in DOMAIN db.transaction :
                  /\ db.transaction[j].company_id = company_id
                  /\ db.transaction[j].category = category}}

\* C12: the category report has a candidate row for every distinct
\* head_of_account with a transaction of the company in the category, and
\* the row's totals are the sums over all the company's transactions with
\* that head, whatever their category.
C12_CategoryTotals ==
    (response.op = "special_report" /\ response.arg # <<>>) =>
        SpecialReportAggregates(in_category(response.company_id,
                                            response.arg))

\* C12 restricted to the heads that are not empty (holds).
C12_CategoryTotalsOfNamedHeads ==
    (response.op = "special_report" /\ response.arg # <<>>) =>
        SpecialReportAggregates(in_category(response.company_id,
                                            response.arg) \ {<<>>})

\* the included transactions of a trial balance that name an account
named_included(company_id, period) ==
    {i \in included(company_id, period) :
        db.transaction[i].head_of_account # <<>>}

=========================================================================
